---- MODULE Spec2Model ----
(***************************************************************************)
(* A model of the agentic tool-execution core of deonai-cli:               *)
(*   - ToolRegistry / Tool            (src/deonai/core/tools.py)           *)
(*   - AgenticExecutor.execute_loop   (src/deonai/core/agent.py)           *)
(*   - DiffEngine backup / patch      (src/deonai/utils/diff.py)           *)
(*   - ContextManager detection and relevance scoring                      *)
(*                                    (src/deonai/core/context.py)         *)
(*   - the chat loop and its progress indicator   (src/deonai.py)          *)
(*                                                                         *)
(* Texts (Python str values that the program builds by formatting) are     *)
(* sequences of string tokens, so that f"Error: {e}" is a concatenation    *)
(* and not an opaque value.                                                *)
(***************************************************************************)
EXTENDS Integers, Sequences, FiniteSets, TLC

VARIABLES
    \* ---- ToolRegistry (tools.py) ----
    tools,              \* ToolRegistry.tools: name -> identity of the registered Tool
    last_exec,          \* history: the last registry operation and its outcome
    \* ---- AgenticExecutor (agent.py) ----
    max_iterations,     \* AgenticExecutor.max_iterations
    current_iteration,  \* AgenticExecutor.current_iteration
    messages,           \* the caller's conversation list, mutated in place
    pc,                 \* position of execute_loop
    pending,            \* the parsed tool calls of the batch not executed yet
    ret,                \* first component of execute_loop's return value
    initial,            \* history: the conversation passed to execute_loop
    api_log,            \* history: the backend outcomes of this run, in order
    executed,           \* history: the registry.execute calls of this run, in order
    runs,               \* history: number of execute_loop calls so far
    disk,               \* the content of the file the read_file / write_file tools work on
    \* ---- DiffEngine (diff.py) and the two files it works on ----
    file,               \* the file at file_path: [exists, data]
    backup,             \* the file at file_path + ".bak": [exists, data]
    patch_installed,    \* whether a "patch" executable is on the PATH
    dop,                \* history: the last DiffEngine operation and its outcome
    gen,                \* history: the last generate_diff call and its result
    rt,                 \* history: progress of a create_backup / overwrite / restore_backup sequence
    \* ---- ContextManager (context.py) ----
    cwd,                \* ContextManager.cwd
    markers,            \* the file system: directory -> marker entries it contains
    git,                \* what "git rev-parse --show-toplevel" does in cwd
    workspace,          \* ContextManager.workspace (<<>> with ctx_pc = "new": None)
    ctx_pc,             \* "new" before detection, "ready" after it
    project_info,       \* ContextManager.project_info
    ctx_log,            \* history: what the steps of the last __init__ did
    asked,              \* history: the last is_in_workspace call and its result
    \* ---- ContextManager.get_relevant_files ----
    root_loc,           \* str(workspace): the workspace root as a path string
    ages,               \* age class of each workspace file's modification time
    scan_order,         \* the order in which rglob yields the workspace files
    relevant,           \* history: the last get_relevant_files call and its result
    \* ---- chat_mode and its TypingAnimation (deonai.py) ----
    chat_pc,            \* position of the chat loop's main thread
    todo,               \* the steps left of the handler the main thread is in
    typing,             \* the local "typing": its running flag and its thread
    turn                \* history: the current turn, its stops and its prints

agentVars == <<max_iterations, current_iteration, messages, pc, pending, ret,
               initial, api_log, executed, runs, disk>>
regVars == <<tools, last_exec>>
fileVars == <<file, backup, patch_installed, dop, gen, rt>>
ctxVars == <<cwd, markers, git, workspace, ctx_pc, project_info, ctx_log, asked>>
scoreVars == <<root_loc, ages, scan_order, relevant>>
chatVars == <<chat_pc, todo, typing, turn>>
vars == <<tools, last_exec, max_iterations, current_iteration, messages, pc,
          pending, ret, initial, api_log, executed, runs, disk,
          file, backup, patch_installed, dop, gen, rt,
          cwd, markers, git, workspace, ctx_pc, project_info, ctx_log, asked,
          root_loc, ages, scan_order, relevant,
          chat_pc, todo, typing, turn>>

\* ---------------------------------------------------------------------------
\* Bounds of the model
\* ---------------------------------------------------------------------------
MaxIter == 2
MaxRuns == 2
MaxLen == 2
MaxDepth == 3

\* ---------------------------------------------------------------------------
\* Texts and exceptions
\* ---------------------------------------------------------------------------
EmptyText == <<>>

\* str(x) of a value returned by a tool function: a one-token text
Str(v) == <<v>>

Returned(text) == [raised |-> FALSE, val |-> text, invoked |-> TRUE]
Raised(text, inv) == [raised |-> TRUE, val |-> text, invoked |-> inv]

\* What a tool's executable may do when it is called: return a value or raise.
FnOutcomes ==
    { [raised |-> FALSE, val |-> "out"],
      [raised |-> TRUE,  val |-> "boom"] }

\* The executables of the built-in tools (builtin_tools.py), reduced to what
\* they do to the one file they are pointed at: read_file returns its content,
\* write_file replaces it; an executable that raises has changed nothing.
\* The content is "old" until a write_file has made it "new".
ToolFunction(name, d, fnOut) ==
    IF fnOut.raised THEN [raised |-> TRUE, val |-> fnOut.val, disk |-> d]
    ELSE CASE name = "read_file"  -> [raised |-> FALSE, val |-> d, disk |-> d]
           [] name = "write_file" -> [raised |-> FALSE, val |-> fnOut.val, disk |-> "new"]
           [] OTHER               -> [raised |-> FALSE, val |-> fnOut.val, disk |-> d]

\* ---------------------------------------------------------------------------
\* Tool and ToolRegistry
\* ---------------------------------------------------------------------------
ToolNames == {"read_file", "write_file", "nonexistent"}
ToolIds == {1, 2}
NoTool == 0

\* Tool.execute(**kwargs): str(function(**kwargs)), any failure re-raised as ToolError
ToolExecute(name, fnOut) ==
    IF fnOut.raised
    THEN Raised(<<"Tool '", name, "' failed: ", fnOut.val>>, TRUE)
    ELSE Returned(Str(fnOut.val))

\* ToolRegistry.tools is a Python dict: an insertion-ordered mapping, modelled
\* as a sequence of entries with distinct names.
Entry(name, tool) == [name |-> name, tool |-> tool]

DictKeys(d) == [i \in 1..Len(d) |-> d[i].name]

DictHas(d, name) == \E i \in 1..Len(d) : d[i].name = name

DictIndex(d, name) == CHOOSE i \in 1..Len(d) : d[i].name = name

\* d[name] = tool: an existing key keeps its position and gets the new value
DictSetAppends(d, name, tool) == Append(d, Entry(name, tool))

DictSet(d, name, tool) ==
    IF DictHas(d, name)
    THEN [d EXCEPT ![DictIndex(d, name)] = Entry(name, tool)]
    ELSE Append(d, Entry(name, tool))

\* del d[name]
DictDel(d, name) ==
    LET k == DictIndex(d, name) IN
    SubSeq(d, 1, k - 1) \o SubSeq(d, k + 1, Len(d))

\* ToolRegistry.get_tool(name): self.tools.get(name)
GetTool(reg, name) == IF DictHas(reg, name) THEN reg[DictIndex(reg, name)].tool ELSE NoTool

\* ToolRegistry.execute(name, arguments).  arguments is the decoded argument
\* value: "dict" (a mapping) or "list" (valid JSON that is no mapping, for which
\* tool.execute(**arguments) raises TypeError before the tool is entered).
RegistryExecuteNoLookup(reg, name, arguments, fnOut) ==
    IF GetTool(reg, name) = NoTool
    THEN Raised(<<"Tool '", name, "' execution failed: ", "AttributeError">>, FALSE)
    ELSE IF arguments # "dict"
    THEN Raised(<<"Tool '", name, "' execution failed: ", "TypeError">>, FALSE)
    ELSE LET r == ToolExecute(name, fnOut) IN
         IF r.raised
         THEN Raised(<<"Tool '", name, "' execution failed: ">> \o r.val, TRUE)
         ELSE r

RegistryExecute(reg, name, arguments, fnOut) ==
    IF GetTool(reg, name) = NoTool
    THEN Raised(<<"Tool not found: ", name>>, FALSE)
    ELSE IF arguments # "dict"
    THEN Raised(<<"Tool '", name, "' execution failed: ", "TypeError">>, FALSE)
    ELSE LET r == ToolExecute(name, fnOut) IN
         IF r.raised
         THEN Raised(<<"Tool '", name, "' execution failed: ">> \o r.val, TRUE)
         ELSE r

\* The registry operations, each recorded in last_exec with the registry before it
NoExec == [op |-> "none", name |-> "", arguments |-> "", fn |-> [raised |-> FALSE, val |-> ""],
           raised |-> FALSE, val |-> EmptyText, invoked |-> FALSE, before |-> <<>>,
           tool |-> NoTool]

\* The decorator of ToolRegistry.register and ToolRegistry.register_tool:
\* self.tools[name] = tool
Register ==
    /\ \E name \in ToolNames, tool \in ToolIds :
         /\ tools' = DictSet(tools, name, tool)
         /\ last_exec' = [NoExec EXCEPT !.op = "register", !.name = name, !.before = tools,
                                        !.tool = tool]
    /\ UNCHANGED <<agentVars, fileVars, ctxVars, scoreVars, chatVars>>

\* ToolRegistry.unregister(name)
Unregister ==
    /\ \E name \in ToolNames :
         /\ tools' = IF DictHas(tools, name) THEN DictDel(tools, name) ELSE tools
         /\ last_exec' = [NoExec EXCEPT !.op = "unregister", !.name = name,
                                        !.raised = FALSE, !.invoked = DictHas(tools, name),
                                        !.before = tools]
    /\ UNCHANGED <<agentVars, fileVars, ctxVars, scoreVars, chatVars>>

\* A direct call of ToolRegistry.execute(name, arguments)
Execute ==
    /\ \E name \in ToolNames, arguments \in {"dict", "list"}, fnOut \in FnOutcomes :
         LET res == RegistryExecute(tools, name, arguments, fnOut) IN
         last_exec' = [op |-> "execute", name |-> name, arguments |-> arguments,
                       fn |-> fnOut, raised |-> res.raised, val |-> res.val,
                       invoked |-> res.invoked, before |-> tools,
                       tool |-> GetTool(tools, name)]
    /\ UNCHANGED tools
    /\ UNCHANGED <<agentVars, fileVars, ctxVars, scoreVars, chatVars>>

\* ---------------------------------------------------------------------------
\* Backend replies and ToolRegistry.parse_tool_calls
\* ---------------------------------------------------------------------------
\* A raw tool-call request of a backend reply.  "arguments" names the form of
\* the serialized payload: "obj" (a JSON object), "arr" (valid JSON, no object),
\* "badjson" (a string that is no JSON), "notstr" (not a string at all: a
\* decoded object or null), "nokey" (the function/arguments key is absent).
Req(id, name, payload) == [id |-> id, name |-> name, arguments |-> payload]

\* json.loads(payload)
JsonLoads(payload) ==
    CASE payload = "obj"     -> [exc |-> "none", val |-> "dict"]
      [] payload = "arr"     -> [exc |-> "none", val |-> "list"]
      [] payload = "badjson" -> [exc |-> "JSONDecodeError", val |-> "none"]
      [] OTHER               -> [exc |-> "TypeError", val |-> "none"]

\* The body of the try block of parse_tool_calls for one raw call
ParseOne(call) ==
    IF call.arguments = "nokey"
    THEN [exc |-> "KeyError", val |-> "none"]
    ELSE JsonLoads(call.arguments)

ToolCall(call, arguments) == [id |-> call.id, name |-> call.name, arguments |-> arguments]

RECURSIVE ParseFrom(_, _)
ParseFrom(raw_calls, acc) ==
    IF raw_calls = <<>> THEN [raised |-> FALSE, calls |-> acc]
    ELSE LET call == Head(raw_calls)
             one  == ParseOne(call)
         IN  CASE one.exc = "none" ->
                    ParseFrom(Tail(raw_calls), Append(acc, ToolCall(call, one.val)))
               [] one.exc \in {"KeyError", "JSONDecodeError"} ->
                    ParseFrom(Tail(raw_calls), acc)
               [] OTHER -> [raised |-> TRUE, calls |-> acc]

\* ToolRegistry.parse_tool_calls(response)
parse_tool_calls(message) == ParseFrom(message.tool_calls, <<>>)

\* Conversation messages
Msg(role, content, id, calls) ==
    [role |-> role, content |-> content, tool_call_id |-> id, tool_calls |-> calls]

UserMsg == Msg("user", <<"question">>, "", <<>>)
SystemMsg == Msg("system", <<"prompt">>, "", <<>>)

\* Conversations a caller passes to execute_loop
InitialConversations == { <<UserMsg>>, <<SystemMsg, UserMsg>> }

\* Batches of tool-call requests the backend stub may answer with
ToolCallBatches ==
    { <<Req("c1", "read_file", "obj")>>,
      <<Req("c1", "nonexistent", "obj")>>,
      <<Req("c1", "read_file", "arr")>>,
      <<Req("c1", "read_file", "obj"), Req("c2", "write_file", "obj")>>,
      <<Req("c1", "write_file", "obj"), Req("c2", "read_file", "obj")>>,
      <<Req("c1", "read_file", "badjson"), Req("c2", "read_file", "obj")>>,
      <<Req("c1", "read_file", "nokey"), Req("c2", "read_file", "obj")>>,
      <<Req("c1", "read_file", "notstr"), Req("c2", "read_file", "obj")>> }

\* A backend outcome: the call raises ("error"), or it returns a reply whose
\* message has an optional content (<<>>: the key is absent) and tool calls.
ApiError == [kind |-> "error", content |-> <<>>, tool_calls |-> <<>>]
Reply(content, calls) == [kind |-> "reply", content |-> content, tool_calls |-> calls]

PlainReplies == { Reply(<<<<"answer">>>>, <<>>), Reply(<<>>, <<>>) }
ToolReplies == { Reply(<<>>, b) : b \in ToolCallBatches }

\* message.get("content", "")
GetContent(reply) == IF reply.content = <<>> THEN EmptyText ELSE reply.content[1]

Sentinel == <<"Max iterations reached. Task may be incomplete.">>
ApiErrorText == <<"Error: API call failed: ", "timeout">>

\* ---------------------------------------------------------------------------
\* AgenticExecutor.execute_loop
\* ---------------------------------------------------------------------------
\* The loop condition of line 41
LoopConditionInclusive(cur, max) == cur <= max

LoopCondition(cur, max) == cur < max

\* The tool-role message appended for one executed call (lines 83-97)
ToolMessageNoPrefix(call, res) == Msg("tool", res.val, call.id, <<>>)

ToolMessage(call, res) ==
    Msg("tool", IF res.raised THEN <<"Error: ">> \o res.val ELSE res.val, call.id, <<>>)

\* The assistant message of a plain answer (line 59) and of a tool-call turn (line 67)
AssistantPlainDropsText(reply) == Msg("assistant", EmptyText, "", <<>>)

AssistantPlain(reply) == Msg("assistant", GetContent(reply), "", <<>>)

AssistantWithCalls(reply) == Msg("assistant", GetContent(reply), "", reply.tool_calls)

\* messages.append(message) of line 67, which precedes the parsing and the for loop
AppendAssistantOmitted(msgs, message) == msgs

AppendAssistantOverLast(msgs, message) ==
    Append(SubSeq(msgs, 1, Len(msgs) - 1), message)

AppendAssistant(msgs, message) == Append(msgs, message)

\* The conversation returned by line 51 when api_call_fn raised: the list as
\* it was passed to the call
ReturnedOnApiFailureWithNote(msgs) ==
    Append(msgs, Msg("assistant", <<"Error: API call failed: ", "timeout">>, "", <<>>))

ReturnedOnApiFailure(msgs) == msgs

\* "for call in tool_calls" of line 72: the calls are taken from the front
NextCallFromBack(calls) == calls[Len(calls)]

NextCall(calls) == Head(calls)

Running == pc \in {"while", "api", "for"}

\* self.current_iteration = 0 of line 39
IterationKept(cur) == cur

IterationReset(cur) == 0

\* execute_loop is entered: line 39
StartLoop ==
    /\ ~Running
    /\ runs < MaxRuns
    /\ \E conv \in InitialConversations :
         /\ messages' = conv
         /\ initial' = conv
    /\ current_iteration' = IterationReset(current_iteration)
    /\ pc' = "while"
    /\ pending' = <<>>
    /\ ret' = EmptyText
    /\ api_log' = <<>>
    /\ executed' = <<>>
    /\ runs' = runs + 1
    /\ UNCHANGED <<max_iterations, tools, last_exec, disk,
                   fileVars, ctxVars, scoreVars, chatVars>>

\* The while test of line 41, the increment of line 42, the return of line 103
WhileTest ==
    /\ pc = "while"
    /\ IF LoopCondition(current_iteration, max_iterations)
       THEN /\ current_iteration' = current_iteration + 1
            /\ pc' = "api"
            /\ ret' = ret
       ELSE /\ current_iteration' = current_iteration
            /\ pc' = "returned"
            /\ ret' = Sentinel
    /\ UNCHANGED <<max_iterations, messages, pending, initial, api_log, executed,
                   runs, tools, last_exec, disk,
                   fileVars, ctxVars, scoreVars, chatVars>>

\* api_call_fn raises: lines 47-51
ApiCallFails ==
    /\ pc = "api"
    /\ api_log' = Append(api_log, ApiError)
    /\ ret' = ApiErrorText
    /\ pc' = "returned"
    /\ messages' = ReturnedOnApiFailure(messages)
    /\ UNCHANGED <<max_iterations, current_iteration, pending, initial,
                   executed, runs, tools, last_exec, disk,
                   fileVars, ctxVars, scoreVars, chatVars>>

\* The reply has no tool calls: lines 54-60
ApiReplyPlain ==
    /\ pc = "api"
    /\ \E reply \in PlainReplies :
         /\ api_log' = Append(api_log, reply)
         /\ messages' = Append(messages, AssistantPlain(reply))
         /\ ret' = GetContent(reply)
    /\ pc' = "returned"
    /\ UNCHANGED <<max_iterations, current_iteration, pending, initial, executed,
                   runs, tools, last_exec, disk,
                   fileVars, ctxVars, scoreVars, chatVars>>

\* The reply has tool calls: lines 62-70 (append the raw message, then parse)
ApiReplyToolCalls ==
    /\ pc = "api"
    /\ \E reply \in ToolReplies :
         LET message == AssistantWithCalls(reply)
             parsed  == parse_tool_calls(message)
         IN  /\ api_log' = Append(api_log, reply)
             /\ messages' = AppendAssistant(messages, message)
             /\ IF parsed.raised
                THEN /\ pc' = "raised"
                     /\ pending' = <<>>
                ELSE /\ pc' = "for"
                     /\ pending' = parsed.calls
    /\ UNCHANGED <<max_iterations, current_iteration, ret, initial, executed, runs,
                   tools, last_exec, disk,
                   fileVars, ctxVars, scoreVars, chatVars>>

\* One pass of the for loop of lines 72-97
ExecTool ==
    /\ pc = "for"
    /\ pending # <<>>
    /\ \E fnOut \in FnOutcomes :
         LET call == NextCall(pending)
             eff  == ToolFunction(call.name, disk, fnOut)
             fn   == [raised |-> eff.raised, val |-> eff.val]
             res  == RegistryExecute(tools, call.name, call.arguments, fn)
         IN  /\ messages' = Append(messages, ToolMessage(call, res))
             /\ disk' = IF res.invoked THEN eff.disk ELSE disk
             /\ executed' = Append(executed,
                    [id |-> call.id, name |-> call.name, fn |-> fn,
                     raised |-> res.raised, val |-> res.val,
                     invoked |-> res.invoked, batch |-> Len(api_log),
                     started |-> Len(messages),
                     at |-> Len(messages) + 1])
    /\ pending' = Tail(pending)
    /\ UNCHANGED <<max_iterations, current_iteration, pc, ret, initial, api_log,
                   runs, tools, last_exec,
                   fileVars, ctxVars, scoreVars, chatVars>>

\* The for loop is exhausted: back to the while test
EndBatch ==
    /\ pc = "for"
    /\ pending = <<>>
    /\ pc' = "while"
    /\ UNCHANGED <<max_iterations, current_iteration, messages, pending, ret,
                   initial, api_log, executed, runs, tools, last_exec, disk,
                   fileVars, ctxVars, scoreVars, chatVars>>

\* ---------------------------------------------------------------------------
\* Properties of execute_loop
\* ---------------------------------------------------------------------------
Last(q) == q[Len(q)]

WellFormed(call) == ParseOne(call).exc = "none"

\* Every backend outcome of this run was a reply with exactly one well-formed request
OnlySingleToolCalls ==
    \A i \in 1..Len(api_log) :
        /\ api_log[i].kind = "reply"
        /\ Len(api_log[i].tool_calls) = 1
        /\ WellFormed(api_log[i].tool_calls[1])

\* Safety half of C1: the backend is never called more than max_iterations
\* times, nothing is raised, and a return happens only after exactly
\* max_iterations backend calls, one tool execution per call, with the sentinel.
C1_CapRespected ==
    OnlySingleToolCalls =>
        /\ Len(api_log) <= max_iterations
        /\ pc # "raised"
        /\ pc = "returned" =>
              /\ Len(api_log) = max_iterations
              /\ ret = Sentinel
              /\ Len(executed) = max_iterations

\* C1: against a backend that answers every call with exactly one well-formed
\* tool-call request, execute_loop calls the backend at most max_iterations
\* times, does not raise, and when it returns it has called the backend
\* exactly max_iterations times and returns the max-iterations sentinel; and
\* every run that has been entered comes to an end.
C1_HaltsAtCap ==
    /\ []C1_CapRespected
    /\ (Running ~> ~Running)

C1_Witness ==
    /\ pc = "returned"
    /\ max_iterations = MaxIter
    /\ max_iterations >= 1
    /\ OnlySingleToolCalls
    /\ Len(api_log) = max_iterations
    /\ ret = Sentinel

\* Index of the last assistant message that carries tool-call requests (0: none)
LastCallsIdx ==
    LET S == { i \in 1..Len(messages) :
                 messages[i].role = "assistant" /\ messages[i].tool_calls # <<>> }
    IN  IF S = {} THEN 0 ELSE CHOOSE i \in S : \A j \in S : j <= i

\* C2: in a batch where one call fails and the next call succeeds, the failed
\* call has a tool-role message 'Error: <cause>' (the text of the exception,
\* which ends with what the tool raised), the next call has a tool-role message
\* whose content is exactly the text its tool returned, and the failure neither
\* removes the following calls from the batch nor aborts the loop.
C2_BatchIsolation ==
    /\ \A i \in 1..Len(executed) :
         LET e == executed[i] IN
         /\ e.at <= Len(messages)
         /\ e.raised =>
              /\ messages[e.at] = Msg("tool", <<"Error: ">> \o e.val, e.id, <<>>)
              /\ e.invoked => Last(e.val) = e.fn.val
         /\ ~e.raised => messages[e.at] = Msg("tool", Str(e.fn.val), e.id, <<>>)
    /\ pc = "for" =>
         LET calls == parse_tool_calls(messages[LastCallsIdx]).calls
             done  == Len(messages) - LastCallsIdx
         IN  /\ done + Len(pending) = Len(calls)
             /\ pending = SubSeq(calls, done + 1, Len(calls))
             /\ \A k \in 1..done :
                  /\ messages[LastCallsIdx + k].role = "tool"
                  /\ messages[LastCallsIdx + k].tool_call_id = calls[k].id
    /\ pc = "raised" => parse_tool_calls(Last(messages)).raised

C2_Witness ==
    \E i \in 1..Len(executed) - 1 :
        /\ executed[i].batch = executed[i + 1].batch
        /\ executed[i].raised /\ executed[i].invoked
        /\ ~executed[i + 1].raised
        /\ messages[executed[i].at].content[1] = "Error: "
        /\ messages[executed[i + 1].at].content = <<"out">>

PlainAnswer(o) == o.kind = "reply" /\ o.tool_calls = <<>>

\* C9: once the backend has answered without tool-call requests, execute_loop
\* has returned the reply's text, the conversation has grown by exactly one
\* assistant message with that text (beyond the assistant and tool messages of
\* the earlier batches), no tool was executed for this reply and the backend
\* is not called again.
C9_PlainAnswerEndsLoop ==
    (api_log # <<>> /\ PlainAnswer(Last(api_log))) =>
        /\ pc = "returned"
        /\ ret = GetContent(Last(api_log))
        /\ Last(messages) = Msg("assistant", GetContent(Last(api_log)), "", <<>>)
        /\ Len(messages) = Len(initial) + (Len(api_log) - 1) + Len(executed) + 1
        /\ \A i \in 1..Len(executed) : executed[i].batch < Len(api_log)
        /\ \A i \in 1..Len(api_log) - 1 : ~PlainAnswer(api_log[i])

C9_Witness ==
    /\ Len(api_log) = 2
    /\ PlainAnswer(Last(api_log))
    /\ ret = <<"answer">>
    /\ Last(messages).content = <<"answer">>
    /\ executed # <<>>

Carries(m, id) ==
    /\ m.role = "assistant"
    /\ \E k \in 1..Len(m.tool_calls) : m.tool_calls[k].id = id

\* C10: every tool-role message of the conversation comes after an assistant
\* message that carries its call id, and whenever calls of a batch are still
\* to be executed the assistant message that carries them is already the last
\* assistant message of the conversation.
C10_AssistantBeforeTools ==
    /\ \A j \in 1..Len(messages) :
         messages[j].role = "tool" =>
             \E i \in 1..(j - 1) : Carries(messages[i], messages[j].tool_call_id)
    /\ \A k \in 1..Len(pending) :
         /\ LastCallsIdx > 0
         /\ Carries(messages[LastCallsIdx], pending[k].id)
    /\ \A i \in 1..Len(executed) :
         \E a \in 1..(executed[i].at - 1) : Carries(messages[a], executed[i].id)

C10_Witness ==
    /\ pc = "for"
    /\ Len(pending) = 1
    /\ Len(executed) >= 2
    /\ Last(messages).role = "tool"

\* Position of the i-th executed call within its batch
RankInBatch(i) ==
    Cardinality({ j \in 1..i : executed[j].batch = executed[i].batch })

\* C11: the calls of a batch are executed one at a time in the order of the
\* requests: the k-th execution of a batch is the k-th parsed request, it
\* starts only after the tool-role message of the execution before it has
\* been appended, its own tool-role message carries the id of its request,
\* and a read_file that follows a write_file in the same batch returns the
\* written content.
C11_SequentialInOrder ==
    /\ \A i \in 1..Len(executed) :
         LET e == executed[i]
             calls == parse_tool_calls(api_log[e.batch]).calls
         IN  /\ RankInBatch(i) <= Len(calls)
             /\ e.id = calls[RankInBatch(i)].id
             /\ e.name = calls[RankInBatch(i)].name
             /\ e.at = e.started + 1
             /\ messages[e.at].role = "tool"
             /\ messages[e.at].tool_call_id = e.id
             /\ i > 1 => e.started >= executed[i - 1].at
    /\ \A i \in 1..Len(executed) - 1 :
         LET w == executed[i]
             r == executed[i + 1]
         IN  (/\ w.batch = r.batch
              /\ w.name = "write_file" /\ w.invoked /\ ~w.raised
              /\ r.name = "read_file" /\ r.invoked /\ ~r.raised) =>
                 /\ r.val = Str("new")
                 /\ messages[r.at].content = Str("new")

C11_Witness ==
    /\ Len(executed) = 3
    /\ executed[1].name = "read_file" /\ executed[1].val = Str("old")
    /\ executed[2].batch = executed[3].batch
    /\ executed[2].name = "write_file" /\ ~executed[2].raised
    /\ executed[3].name = "read_file" /\ executed[3].val = Str("new")
    /\ messages[executed[2].at].tool_call_id = "c1"
    /\ messages[executed[3].at].tool_call_id = "c2"

IsPrefix(p, q) == Len(p) <= Len(q) /\ SubSeq(q, 1, Len(p)) = p

\* C12: within one call of execute_loop every step leaves the conversation as
\* it was or extends it at the end, so every message keeps its position and
\* content; the conversation the caller passed is a prefix of the current one
\* at every step and at every return, the return at the cap included.
C12_AppendOnly ==
    /\ [][ runs' = runs => IsPrefix(messages, messages') ]_vars
    /\ [](IsPrefix(initial, messages))

C12_Witness ==
    /\ pc = "returned"
    /\ ret = Sentinel
    /\ max_iterations = MaxIter
    /\ Len(messages) >= Len(initial) + 2 * MaxIter
    /\ IsPrefix(initial, messages)

\* C13: when the backend call raises, execute_loop returns at once with a text
\* that starts with 'Error: API call failed'; the conversation is left exactly
\* as it was passed to the failing call, no tool is executed for it, and the
\* backend is not called again in this run.
C13_ApiFailureStops ==
    /\ [][ (api_log' # api_log /\ api_log' # <<>> /\ Last(api_log').kind = "error") =>
              /\ messages' = messages
              /\ executed' = executed
              /\ pc' = "returned"
              /\ ret'[1] = "Error: API call failed: " ]_vars
    /\ []((api_log # <<>> /\ Last(api_log).kind = "error") =>
              /\ pc = "returned"
              /\ IsPrefix(initial, messages)
              /\ Len(messages) = Len(initial) + (Len(api_log) - 1) + Len(executed))

C13_Witness ==
    /\ Len(api_log) = 2
    /\ Last(api_log).kind = "error"
    /\ pc = "returned"
    /\ ret = ApiErrorText
    /\ Len(executed) = 2
    /\ Len(messages) = Len(initial) + 3
    /\ Last(messages).role = "tool"

\* C15: parse_tool_calls never raises and execute_loop is never left by an
\* exception of it: for every reply handled so far the parsed calls are the
\* requests whose payload decodes, in their original order, every other
\* request having been dropped.
C15_MalformedDropped ==
    /\ pc # "raised"
    /\ \A i \in 1..Len(api_log) :
         api_log[i].kind = "reply" =>
             LET p == parse_tool_calls(api_log[i])
                 good == SelectSeq(api_log[i].tool_calls, WellFormed)
             IN  /\ ~p.raised
                 /\ Len(p.calls) = Len(good)
                 /\ \A k \in 1..Len(good) :
                       /\ p.calls[k].id = good[k].id
                       /\ p.calls[k].name = good[k].name

\* ---------------------------------------------------------------------------
\* The registry on its own
\* ---------------------------------------------------------------------------
\* C4: ToolRegistry.execute on a registered name whose executable is entered
\* and completes returns the text str(result) and does not raise; on a name
\* that is not registered it raises the not-found error without invoking any
\* tool; in both cases the registry is left as it was.
C4_ExecuteContract ==
    last_exec.op = "execute" =>
        /\ tools = last_exec.before
        /\ (DictHas(last_exec.before, last_exec.name)
              /\ last_exec.arguments = "dict" /\ ~last_exec.fn.raised) =>
               /\ ~last_exec.raised
               /\ last_exec.invoked
               /\ last_exec.val = Str(last_exec.fn.val)
        /\ ~DictHas(last_exec.before, last_exec.name) =>
               /\ last_exec.raised
               /\ ~last_exec.invoked
               /\ last_exec.val = <<"Tool not found: ", last_exec.name>>

C4_Witness ==
    /\ last_exec.op = "execute"
    /\ last_exec.name = "nonexistent"
    /\ ~DictHas(tools, "nonexistent")
    /\ DictHas(tools, "read_file")
    /\ last_exec.raised
    /\ last_exec.val[1] = "Tool not found: "

\* Number of times a name occurs in list_tools()
Occurrences(reg, name) ==
    Cardinality({ i \in 1..Len(reg) : DictKeys(reg)[i] = name })

\* C14: the registry never holds a name twice; a register / register_tool of a
\* name makes get_tool return the tool just registered, whether the name was
\* present or not, with the name listed exactly once and the other names as
\* they were; unregister removes the name and nothing else; execute looks the
\* name up in the registry as the last of these operations left it.
C14_OneToolPerName ==
    /\ [](\A name \in ToolNames : Occurrences(tools, name) <= 1)
    /\ [][ last_exec'.op = "register" =>
              /\ GetTool(tools', last_exec'.name) = last_exec'.tool
              /\ Occurrences(tools', last_exec'.name) = 1
              /\ \A other \in ToolNames \ {last_exec'.name} :
                    GetTool(tools', other) = GetTool(tools, other) ]_vars
    /\ [][ last_exec'.op = "unregister" =>
              /\ GetTool(tools', last_exec'.name) = NoTool
              /\ \A other \in ToolNames \ {last_exec'.name} :
                    GetTool(tools', other) = GetTool(tools, other) ]_vars
    /\ [][ last_exec'.op = "execute" =>
              /\ tools' = tools
              /\ last_exec'.tool = GetTool(tools, last_exec'.name)
              /\ last_exec'.invoked => last_exec'.tool # NoTool ]_vars

C14_Witness ==
    /\ last_exec.op = "register"
    /\ DictHas(last_exec.before, last_exec.name)
    /\ GetTool(last_exec.before, last_exec.name) # last_exec.tool
    /\ GetTool(tools, last_exec.name) = last_exec.tool
    /\ Len(tools) = Len(last_exec.before)
    /\ Len(tools) >= 2

\* ---------------------------------------------------------------------------
\* DiffEngine: files, text-mode I/O, backup, restore, patch
\* ---------------------------------------------------------------------------
\* A file's content is a sequence of bytes: "x" an ordinary character, "LF" and
\* "CR" the two line-end bytes, "BAD" a byte that is not valid UTF-8.
Bytes == {"x", "LF", "CR", "BAD"}
Contents == UNION { [1..n -> Bytes] : n \in 0..MaxLen }

NoFile == [exists |-> FALSE, data |-> <<>>]
FileOf(data) == [exists |-> TRUE, data |-> data]

\* Reading in text mode (newline=None): "\r\n" and "\r" become "\n"
RECURSIVE UniversalNewlines(_)
UniversalNewlines(d) ==
    IF d = <<>> THEN <<>>
    ELSE IF Head(d) = "CR"
         THEN IF Len(d) >= 2 /\ d[2] = "LF"
              THEN <<"LF">> \o UniversalNewlines(SubSeq(d, 3, Len(d)))
              ELSE <<"LF">> \o UniversalNewlines(Tail(d))
         ELSE <<Head(d)>> \o UniversalNewlines(Tail(d))

\* Path.read_text(): decodes (fails on a missing file or undecodable bytes)
\* and translates the line ends
ReadText(f) ==
    IF ~f.exists THEN [exc |-> "FileNotFoundError", text |-> <<>>]
    ELSE IF \E i \in 1..Len(f.data) : f.data[i] = "BAD"
    THEN [exc |-> "UnicodeDecodeError", text |-> <<>>]
    ELSE [exc |-> "none", text |-> UniversalNewlines(f.data)]

\* Path.write_text(text): creates or truncates; "\n" is written as os.linesep,
\* which is "\n" on the platforms the tool set (grep, find, patch) targets
WriteText(text) == FileOf(text)

FS(f, b) == [file |-> f, backup |-> b]

\* DiffEngine.create_backup(file_path): the argument of write_text is evaluated
\* first, so a failing read leaves the backup file as it was
create_backup(fs) ==
    IF fs.file.exists
    THEN LET r == ReadText(fs.file) IN
         IF r.exc # "none"
         THEN [exc |-> r.exc, fs |-> fs]
         ELSE [exc |-> "none", fs |-> FS(fs.file, WriteText(r.text))]
    ELSE [exc |-> "none", fs |-> fs]

\* DiffEngine.restore_backup(file_path)
restore_backup_keeps_backup(fs) ==
    IF fs.backup.exists
    THEN LET r == ReadText(fs.backup) IN
         IF r.exc # "none"
         THEN [exc |-> r.exc, ret |-> FALSE, fs |-> fs]
         ELSE [exc |-> "none", ret |-> TRUE, fs |-> FS(WriteText(r.text), fs.backup)]
    ELSE [exc |-> "none", ret |-> FALSE, fs |-> fs]

restore_backup(fs) ==
    IF fs.backup.exists
    THEN LET r == ReadText(fs.backup) IN
         IF r.exc # "none"
         THEN [exc |-> r.exc, ret |-> FALSE, fs |-> fs]
         ELSE [exc |-> "none", ret |-> TRUE, fs |-> FS(WriteText(r.text), NoFile)]
    ELSE [exc |-> "none", ret |-> FALSE, fs |-> fs]

\* str.splitlines(keepends=True) for the line ends "\n", "\r", "\r\n"
RECURSIVE SplitFrom(_, _, _)
SplitFrom(text, line, acc) ==
    IF text = <<>>
    THEN IF line = <<>> THEN acc ELSE Append(acc, line)
    ELSE LET c == Head(text) IN
         IF c = "LF"
         THEN SplitFrom(Tail(text), <<>>, Append(acc, Append(line, c)))
         ELSE IF c = "CR"
         THEN IF Len(text) >= 2 /\ text[2] = "LF"
              THEN SplitFrom(SubSeq(text, 3, Len(text)), <<>>,
                             Append(acc, line \o <<"CR", "LF">>))
              ELSE SplitFrom(Tail(text), <<>>, Append(acc, Append(line, c)))
         ELSE SplitFrom(Tail(text), Append(line, c), acc)

SplitLines(text) == SplitFrom(text, <<>>, <<>>)

\* A unified diff is a sequence of hunks under a header; difflib.unified_diff
\* yields nothing at all (no header either) when the two line lists are equal,
\* and for the short texts here one hunk that holds every line of both sides.
EmptyDiff == <<>>

\* DiffEngine.generate_diff(original, modified, filename)
generate_diff(original, modified, filename) ==
    LET a == SplitLines(original)
        b == SplitLines(modified)
    IN  IF a = b THEN EmptyDiff
        ELSE << [fromfile |-> <<"a/", filename>>, tofile |-> <<"b/", filename>>,
                 old |-> a, new |-> b] >>

\* The texts diffs are generated from, and the patches handed to apply_patch
PatchTexts == { <<"x">>, <<"x", "LF">> }
Patches == { generate_diff(x, y, "f") : x, y \in PatchTexts }

\* DiffEngine._apply_patch_manual(file_path, patch)
apply_patch_manual(fs, patch) ==
    LET r == ReadText(fs.file) IN
    IF r.exc # "none"
    THEN [ret |-> FALSE, msg |-> <<"Manual patch failed: ", r.exc>>]
    ELSE [ret |-> FALSE,
          msg |-> <<"Manual patch application not fully implemented. Install 'patch' command.">>]

\* What running ["patch", file, patch_file] does: it cannot be started
\* ("absent"), exits 0, exits non-zero, or is killed after the 10 s timeout;
\* unless absent it may have rewritten the file (touch) before it ended.
UtilityWrites == { <<"x">>, <<"x", "CR", "LF">> }

Utility(status, touch, data) == [status |-> status, touch |-> touch, data |-> data]

UtilityOutcomes(installed, patch) ==
    IF ~installed THEN { Utility("absent", FALSE, <<>>) }
    ELSE { Utility(st, FALSE, <<>>) : st \in {"exit0", "nonzero", "timeout"} }
         \cup IF patch = EmptyDiff THEN {}
              ELSE { Utility(st, TRUE, d) :
                        st \in {"exit0", "nonzero", "timeout"}, d \in UtilityWrites }

\* DiffEngine.apply_patch(file_path, patch)
apply_patch(fs, patch, u) ==
    LET b == create_backup(fs) IN
    IF b.exc # "none"
    THEN \* line 88 catches it, line 90 reads the unbound local "backup"
         [exc |-> "UnboundLocalError", ret |-> FALSE, msg |-> <<>>, fs |-> b.fs,
          restore |-> FALSE]
    ELSE IF u.status = "absent"
    THEN LET m == apply_patch_manual(b.fs, patch) IN
         [exc |-> "none", ret |-> m.ret, msg |-> m.msg, fs |-> b.fs,
          restore |-> FALSE]
    ELSE LET after == FS(IF u.touch THEN FileOf(u.data) ELSE b.fs.file, b.fs.backup)
             r == restore_backup(after)
         IN  CASE u.status = "exit0" ->
                    [exc |-> "none", ret |-> TRUE,
                     msg |-> <<"Patch applied successfully to ", "f">>, fs |-> after,
                     restore |-> FALSE]
               [] u.status = "nonzero" ->
                    IF r.exc # "none"
                    THEN [exc |-> r.exc, ret |-> FALSE, msg |-> <<>>, fs |-> after,
                          restore |-> TRUE]
                    ELSE [exc |-> "none", ret |-> FALSE,
                          msg |-> <<"Patch failed: ", "stderr">>, fs |-> r.fs,
                          restore |-> TRUE]
               [] OTHER ->
                    IF ~after.backup.exists
                    THEN [exc |-> "none", ret |-> FALSE,
                          msg |-> <<"Error applying patch: ", "TimeoutExpired">>,
                          fs |-> after, restore |-> FALSE]
                    ELSE IF r.exc # "none"
                    THEN [exc |-> r.exc, ret |-> FALSE, msg |-> <<>>, fs |-> after,
                          restore |-> TRUE]
                    ELSE [exc |-> "none", ret |-> FALSE,
                          msg |-> <<"Error applying patch: ", "TimeoutExpired">>,
                          fs |-> r.fs, restore |-> TRUE]

\* History records
DiffOp(op, exc, r, msg, empty, status, restore) ==
    [op |-> op, exc |-> exc, ret |-> r, msg |-> msg, patch_empty |-> empty,
     status |-> status, restore |-> restore]
NoDop == DiffOp("none", "none", FALSE, <<>>, FALSE, "", FALSE)
NoGen == [called |-> FALSE, original |-> <<>>, modified |-> <<>>, out |-> EmptyDiff]
NoRt == [stage |-> "none", v |-> <<>>]

\* Something other than the DiffEngine overwrites the file
WriteFile ==
    /\ \E d \in Contents : file' = FileOf(d)
    /\ dop' = DiffOp("write_file", "none", FALSE, <<>>, FALSE, "", FALSE)
    /\ rt' = IF rt.stage \in {"backed", "mutated"}
             THEN [rt EXCEPT !.stage = "mutated"] ELSE NoRt
    /\ gen' = NoGen
    /\ UNCHANGED <<backup, patch_installed>>
    /\ UNCHANGED <<agentVars, regVars, ctxVars, scoreVars, chatVars>>

\* Something other than the DiffEngine removes the file
RemoveFile ==
    /\ file.exists
    /\ file' = NoFile
    /\ dop' = DiffOp("remove_file", "none", FALSE, <<>>, FALSE, "", FALSE)
    /\ rt' = NoRt
    /\ gen' = NoGen
    /\ UNCHANGED <<backup, patch_installed>>
    /\ UNCHANGED <<agentVars, regVars, ctxVars, scoreVars, chatVars>>

CreateBackup ==
    /\ LET b == create_backup(FS(file, backup)) IN
         /\ file' = b.fs.file
         /\ backup' = b.fs.backup
         /\ dop' = DiffOp("create_backup", b.exc, FALSE, <<>>, FALSE, "", FALSE)
         /\ rt' = IF file.exists /\ b.exc = "none"
                  THEN [stage |-> "backed", v |-> file.data] ELSE NoRt
    /\ gen' = NoGen
    /\ UNCHANGED patch_installed
    /\ UNCHANGED <<agentVars, regVars, ctxVars, scoreVars, chatVars>>

RestoreBackup ==
    /\ LET r == restore_backup(FS(file, backup)) IN
         /\ file' = r.fs.file
         /\ backup' = r.fs.backup
         /\ dop' = DiffOp("restore_backup", r.exc, r.ret, <<>>, FALSE, "", FALSE)
    /\ rt' = CASE rt.stage = "mutated"  -> [rt EXCEPT !.stage = "restored"]
               [] rt.stage = "restored" -> [rt EXCEPT !.stage = "again"]
               [] rt.stage = "patched"  -> [rt EXCEPT !.stage = "unpatched"]
               [] OTHER                 -> NoRt
    /\ gen' = NoGen
    /\ UNCHANGED patch_installed
    /\ UNCHANGED <<agentVars, regVars, ctxVars, scoreVars, chatVars>>

ApplyPatch ==
    /\ \E patch \in Patches :
         \E u \in UtilityOutcomes(patch_installed, patch) :
            LET a == apply_patch(FS(file, backup), patch, u) IN
            /\ file' = a.fs.file
            /\ backup' = a.fs.backup
            /\ dop' = DiffOp("apply_patch", a.exc, a.ret, a.msg, patch = EmptyDiff,
                             u.status, a.restore)
    /\ rt' = IF rt.stage \in {"backed", "patched"}
             THEN [rt EXCEPT !.stage = "patched"] ELSE NoRt
    /\ gen' = NoGen
    /\ UNCHANGED patch_installed
    /\ UNCHANGED <<agentVars, regVars, ctxVars, scoreVars, chatVars>>

GenerateDiff ==
    /\ \E x \in PatchTexts, y \in PatchTexts :
         gen' = [called |-> TRUE, original |-> x, modified |-> y,
                 out |-> generate_diff(x, y, "f")]
    /\ dop' = DiffOp("generate_diff", "none", FALSE, <<>>, FALSE, "", FALSE)
    /\ UNCHANGED <<file, backup, patch_installed, rt>>
    /\ UNCHANGED <<agentVars, regVars, ctxVars, scoreVars, chatVars>>

NextFiles ==
    \/ WriteFile
    \/ RemoveFile
    \/ CreateBackup
    \/ RestoreBackup
    \/ ApplyPatch
    \/ GenerateDiff

\* ---------------------------------------------------------------------------
\* ContextManager: workspace detection
\* ---------------------------------------------------------------------------
\* A directory is the sequence of the names on its path; <<>> is the file
\* system root "/".  The directories of interest are cwd's deepest candidate
\* and all of its ancestors.
Dirs == { [i \in 1..n |-> i] : n \in 0..MaxDepth }

\* Path.parent: the root is its own parent
Parent(p) == IF p = <<>> THEN <<>> ELSE SubSeq(p, 1, Len(p) - 1)

\* Entries of ContextManager.PROJECT_MARKERS that may be present in a directory
MarkerNames == {".git", "setup.py"}
Layouts == [Dirs -> SUBSET MarkerNames]

\* A path that does not exist
Nowhere == <<0>>

\* subprocess.run(["git", "rev-parse", "--show-toplevel"], cwd=cwd, timeout=2):
\* it raises (git absent, timeout, other), exits non-zero, or exits 0 and
\* prints a top-level path, which exists or not
GitOutcome(kind, top) == [kind |-> kind, toplevel |-> top]
GitOutcomes ==
    { GitOutcome("raises", <<>>), GitOutcome("nonzero", <<>>) }
    \cup { GitOutcome("ok", d) : d \in Dirs \cup {Nowhere} }

PathExists(p) == p \in Dirs

None == [found |-> FALSE, path |-> <<>>]
Some(p) == [found |-> TRUE, path |-> p]

\* ContextManager._find_git_root()
find_git_root(g) ==
    IF g.kind = "ok" /\ PathExists(g.toplevel) THEN Some(g.toplevel) ELSE None

\* ContextManager._find_marker_root(): the walk stops at the directory that is
\* its own parent, without probing it
RECURSIVE MarkerWalk(_, _)
MarkerWalk(current, layout) ==
    IF current = Parent(current) THEN None
    ELSE IF layout[current] # {} THEN Some(current)
    ELSE MarkerWalk(Parent(current), layout)

find_marker_root(c, layout) == MarkerWalk(c, layout)

\* ContextManager.detect_workspace(): 1) git root 2) project markers 3) cwd
detect_workspace_markers_first(c, layout, g) ==
    LET marker_root == find_marker_root(c, layout)
        git_root == find_git_root(g)
    IN  IF marker_root.found THEN marker_root.path
        ELSE IF git_root.found THEN git_root.path
        ELSE c

detect_workspace(c, layout, g) ==
    LET git_root == find_git_root(g)
        marker_root == find_marker_root(c, layout)
    IN  IF git_root.found THEN git_root.path
        ELSE IF marker_root.found THEN marker_root.path
        ELSE c

NoWorkspace == [set |-> FALSE, path |-> <<>>]

\* A probe of the file system (Path.exists) may raise OSError, e.g. for a
\* directory that may not be searched: "probe" is such a failure in the marker
\* walk of detect_workspace, "classify" one in get_project_info.
ProbeFaults == {"none", "probe", "classify"}

\* self.detect_workspace() as called by __init__: git failures are swallowed
\* by _find_git_root, a failing marker probe leaves detect_workspace
DetectOutcome(c, layout, g, fault) ==
    IF fault = "probe" /\ ~find_git_root(g).found /\ c # Parent(c)
    THEN [raised |-> TRUE, path |-> <<>>]
    ELSE [raised |-> FALSE, path |-> detect_workspace(c, layout, g)]

NoInfo == [set |-> FALSE, type |-> "", language |-> ""]
UnknownInfo == [set |-> TRUE, type |-> "unknown", language |-> "None"]

\* ContextManager.get_project_info() for the markers of the model
get_project_info(ws, layout, fault) ==
    IF fault = "classify" THEN [raised |-> TRUE, info |-> NoInfo]
    ELSE IF "setup.py" \in layout[ws]
    THEN [raised |-> FALSE,
          info |-> [set |-> TRUE, type |-> "python", language |-> "python"]]
    ELSE [raised |-> FALSE, info |-> UnknownInfo]

CtxLog(fault, d, classify_raised, exc) ==
    [fault |-> fault, detect_raised |-> d.raised, detected |-> d.path,
     classify_raised |-> classify_raised, exc |-> exc]
NoCtxLog == CtxLog("none", [raised |-> FALSE, path |-> <<>>], FALSE, "none")

\* ContextManager.__init__(cwd): lines 55-68
ContextInitUnguarded(c, layout, g, fault) ==
    LET d == DetectOutcome(c, layout, g, fault) IN
    IF d.raised
    THEN [workspace |-> NoWorkspace, project_info |-> NoInfo,
          log |-> CtxLog(fault, d, FALSE, "OSError")]
    ELSE LET i == get_project_info(d.path, layout, fault) IN
         IF i.raised
         THEN [workspace |-> [set |-> TRUE, path |-> d.path], project_info |-> NoInfo,
               log |-> CtxLog(fault, d, TRUE, "OSError")]
         ELSE [workspace |-> [set |-> TRUE, path |-> d.path], project_info |-> i.info,
               log |-> CtxLog(fault, d, FALSE, "none")]

ContextInit(c, layout, g, fault) ==
    LET d == DetectOutcome(c, layout, g, fault) IN
    IF d.raised
    THEN [workspace |-> [set |-> TRUE, path |-> c], project_info |-> UnknownInfo,
          log |-> CtxLog(fault, d, FALSE, "none")]
    ELSE LET i == get_project_info(d.path, layout, fault) IN
         IF i.raised
         THEN [workspace |-> [set |-> TRUE, path |-> c], project_info |-> UnknownInfo,
               log |-> CtxLog(fault, d, TRUE, "none")]
         ELSE [workspace |-> [set |-> TRUE, path |-> d.path], project_info |-> i.info,
               log |-> CtxLog(fault, d, FALSE, "none")]

\* Path.resolve() of an absolute path in a file system without symbolic links:
\* a negative name stands for "..", which drops the name before it and is void
\* at the root
RECURSIVE resolve_onto(_, _)
resolve_onto(acc, p) ==
    IF p = <<>> THEN acc
    ELSE IF Head(p) < 0 THEN resolve_onto(Parent(acc), Tail(p))
    ELSE resolve_onto(Append(acc, Head(p)), Tail(p))

resolve(p) == resolve_onto(<<>>, p)

\* ContextManager.is_in_workspace(path): relative_to raises ValueError unless
\* the names of the resolved workspace begin the names of the resolved path
is_in_workspace(path, ws) ==
    LET p == resolve(path)
        w == resolve(ws)
    IN  Len(w) <= Len(p) /\ SubSeq(p, 1, Len(w)) = w

\* What is_in_workspace is asked about: the current directory or the workspace
\* root, followed by nothing, by "..", by the name of an entry in it, or by
\* an entry and enough ".." to leave the directory again
AskedSuffixes == { <<>>, <<-1>>, <<7>>, <<7, -1, -1>> }
NoAsked == [called |-> FALSE, path |-> <<>>, result |-> FALSE]

IsInWorkspace ==
    /\ ctx_pc = "ready"
    /\ \E base \in {cwd, workspace.path}, s \in AskedSuffixes :
         asked' = [called |-> TRUE, path |-> base \o s,
                   result |-> is_in_workspace(base \o s, workspace.path)]
    /\ UNCHANGED <<cwd, markers, git, workspace, ctx_pc, project_info, ctx_log>>
    /\ UNCHANGED <<agentVars, regVars, fileVars, scoreVars, chatVars>>

Construct ==
    /\ ctx_pc = "new"
    /\ \E fault \in ProbeFaults :
         LET o == ContextInit(cwd, markers, git, fault) IN
         /\ workspace' = o.workspace
         /\ project_info' = o.project_info
         /\ ctx_log' = o.log
    /\ ctx_pc' = "ready"
    /\ UNCHANGED <<cwd, markers, git, asked>>
    /\ UNCHANGED <<agentVars, regVars, fileVars, scoreVars, chatVars>>

\* The manager is dropped; the next one is constructed for some directory
Discard ==
    /\ ctx_pc = "ready"
    /\ \E d \in Dirs : cwd' = d
    /\ workspace' = NoWorkspace
    /\ project_info' = NoInfo
    /\ ctx_log' = NoCtxLog
    /\ asked' = NoAsked
    /\ ctx_pc' = "new"
    /\ UNCHANGED <<markers, git>>
    /\ UNCHANGED <<agentVars, regVars, fileVars, scoreVars, chatVars>>

NextCtx ==
    \/ Construct
    \/ Discard
    \/ IsInWorkspace

\* ---------------------------------------------------------------------------
\* ContextManager.get_relevant_files and _score_files
\* ---------------------------------------------------------------------------
\* Names and queries are sequences of characters; a path is a sequence of names.
N_config_py == <<"c", "o", "n", "f", "i", "g", ".", "p", "y">>
N_src == <<"s", "r", "c">>
N_app_config_py == <<"a", "p", "p", "_", "c", "o", "n", "f", "i", "g", ".", "p", "y">>
N_README_md == <<"R", "E", "A", "D", "M", "E", ".", "m", "d">>
Q_config == <<"c", "o", "n", "f", "i", "g">>

F_config == <<N_config_py>>
F_app_config == <<N_src, N_app_config_py>>
F_readme == <<N_README_md>>

\* The files of the workspace, as paths relative to its root
WorkspaceFiles == {F_config, F_app_config, F_readme}

\* Where the workspace root may lie: /home/u, /srv/config, /opt/build
RootLocs == { <<<<"h", "o", "m", "e">>, <<"u">>>>, <<<<"s", "r", "v">>, <<"c", "o", "n", "f", "i", "g">>>>, <<<<"o", "p", "t">>, <<"b", "u", "i", "l", "d">>>> }

\* str.lower() on the characters that occur
LowerChar(ch) ==
    CASE ch = "R" -> "r" [] ch = "E" -> "e" [] ch = "A" -> "a"
      [] ch = "D" -> "d" [] ch = "M" -> "m" [] OTHER -> ch

Lower(str) == [i \in 1..Len(str) |-> LowerChar(str[i])]

\* a in b for strings
IsSubstring(a, b) ==
    \E i \in 0..(Len(b) - Len(a)) : SubSeq(b, i + 1, i + Len(a)) = a

\* str(path) of an absolute path: "/" + "/".join(names)
RECURSIVE PathStr(_)
PathStr(names) ==
    IF names = <<>> THEN <<>> ELSE <<"/">> \o Head(names) \o PathStr(Tail(names))

\* str.split(): the whitespace-separated words (the characters here have no
\* whitespace but " ")
RECURSIVE SplitWords(_, _, _)
SplitWords(str, word, acc) ==
    IF str = <<>> THEN (IF word = <<>> THEN acc ELSE Append(acc, word))
    ELSE IF Head(str) = " "
         THEN SplitWords(Tail(str), <<>>, IF word = <<>> THEN acc ELSE Append(acc, word))
         ELSE SplitWords(Tail(str), Append(word, Head(str)), acc)

\* fnmatch of a name against a pattern with "*" wildcards
RECURSIVE GlobMatch(_, _)
GlobMatch(name, pat) ==
    IF pat = <<>> THEN name = <<>>
    ELSE IF Head(pat) = "*"
         THEN GlobMatch(name, Tail(pat))
              \/ (name # <<>> /\ GlobMatch(Tail(name), pat))
         ELSE /\ name # <<>>
              /\ Head(name) = Head(pat)
              /\ GlobMatch(Tail(name), Tail(pat))

P_py == <<"*", ".", "p", "y">>
P_md == <<"*", ".", "m", "d">>
P_txt == <<"*", ".", "t", "x", "t">>
P_json == <<"*", ".", "j", "s", "o", "n">>
P_yaml == <<"*", ".", "y", "a", "m", "l">>
P_yml == <<"*", ".", "y", "m", "l">>
P_any == <<"*", ".", "*">>

\* ContextManager._get_default_patterns() for a project language
get_default_patterns(language) ==
    LET patterns == (IF language = "python" THEN <<P_py>> ELSE <<>>)
                    \o <<P_md, P_txt, P_json, P_yaml, P_yml>>
    IN  IF patterns # <<>> THEN patterns ELSE <<P_any>>

\* workspace.rglob(pattern): the files whose name matches, in scan order
RECURSIVE RGlob(_, _, _)
RGlob(root, order, pat) ==
    IF order = <<>> THEN <<>>
    ELSE (IF GlobMatch(Last(Head(order)), pat) THEN <<root \o Head(order)>> ELSE <<>>)
         \o RGlob(root, Tail(order), pat)

RECURSIVE CollectFiles(_, _, _)
CollectFiles(root, order, patterns) ==
    IF patterns = <<>> THEN <<>>
    ELSE RGlob(root, order, Head(patterns)) \o CollectFiles(root, order, Tail(patterns))

\* Members of excluded_dirs that are spelled here
ExcludedDirs == { <<"b", "u", "i", "l", "d">>, <<"e", "n", "v">> }

\* ContextManager._filter_excluded(files): file.parts are the parts of the
\* whole path, the workspace root's own directories included
RECURSIVE filter_excluded(_)
filter_excluded(files) ==
    IF files = <<>> THEN <<>>
    ELSE LET f == Head(files) IN
         (IF \E i \in 1..Len(f) : f[i] \in ExcludedDirs THEN <<>> ELSE <<f>>)
         \o filter_excluded(Tail(files))

\* The recency bonus of lines 320-330 for an age class
AgeClasses == {"week", "month", "old"}
RecencyBonus(age) == IF age = "week" THEN 5 ELSE IF age = "month" THEN 2 ELSE 0

RECURSIVE WordScore(_, _)
WordScore(words, name_lower) ==
    IF words = <<>> THEN 0
    ELSE (IF IsSubstring(Head(words), name_lower) THEN 10 ELSE 0)
         + WordScore(Tail(words), name_lower)

\* The score of one file: lines 293-330.  f is the whole path, root the
\* workspace root, age the age class of the file's mtime.
Score(f, root, query, age) ==
    LET query_lower == Lower(query)
        name_lower == Lower(Last(f))
        path_str == Lower(PathStr(f))
        relative_path == SubSeq(f, Len(root) + 1, Len(f))
    IN  (IF query_lower = name_lower THEN 100 ELSE 0)
        + (IF IsSubstring(query_lower, name_lower) THEN 50 ELSE 0)
        + (IF IsSubstring(query_lower, path_str) THEN 20 ELSE 0)
        + WordScore(SplitWords(query_lower, <<>>, <<>>), name_lower)
        - Len(relative_path) * 2
        + RecencyBonus(age)

\* list.sort(reverse=True, key=score): stable, equal scores keep their order
RECURSIVE InsertBeforeEqualScore(_, _)
InsertBeforeEqualScore(sorted, e) ==
    IF sorted = <<>> THEN <<e>>
    ELSE IF Head(sorted).score > e.score
         THEN <<Head(sorted)>> \o InsertBeforeEqualScore(Tail(sorted), e)
         ELSE <<e>> \o sorted

RECURSIVE InsertByScore(_, _)
InsertByScore(sorted, e) ==
    IF sorted = <<>> THEN <<e>>
    ELSE IF Head(sorted).score >= e.score
         THEN <<Head(sorted)>> \o InsertByScore(Tail(sorted), e)
         ELSE <<e>> \o sorted

RECURSIVE SortByScore(_, _)
SortByScore(scored, acc) ==
    IF scored = <<>> THEN acc
    ELSE SortByScore(Tail(scored), InsertByScore(acc, Head(scored)))

\* ContextManager._score_files(files, query)
RECURSIVE ScoreAll(_, _, _, _)
ScoreAll(files, root, query, age_of) ==
    IF files = <<>> THEN <<>>
    ELSE LET f == Head(files)
             sc == Score(f, root, query, age_of[SubSeq(f, Len(root) + 1, Len(f))])
         IN  (IF sc > 0 THEN <<[score |-> sc, path |-> f]>> ELSE <<>>)
             \o ScoreAll(Tail(files), root, query, age_of)

score_files(files, root, query, age_of) ==
    SortByScore(ScoreAll(files, root, query, age_of), <<>>)

\* scored[:max_files] for max_files >= 0
Take(q, n) == SubSeq(q, 1, IF n < Len(q) THEN n ELSE Len(q))

\* ContextManager.get_relevant_files(query, max_files, include_patterns);
\* include_patterns = <<>> stands for None
get_relevant_files(root, order, age_of, language, query, max_files, include_patterns) ==
    LET patterns == IF include_patterns = <<>> THEN get_default_patterns(language)
                    ELSE include_patterns
        all_files == CollectFiles(root, order, patterns)
        scored == score_files(filter_excluded(all_files), root, query, age_of)
        top == Take(scored, max_files)
    IN  [i \in 1..Len(top) |-> top[i].path]

Permutations3(S) ==
    { q \in [1..Cardinality(S) -> S] : \A i, j \in 1..Cardinality(S) : i # j => q[i] # q[j] }

PatternLists == { <<>>, <<P_py, P_md>>, <<P_md, P_py>>, <<P_py, P_any>> }
MaxFilesChoices == {0, 1, 2, 10}

NoRelevant == [called |-> FALSE, query |-> <<>>, max_files |-> 0,
               include_patterns |-> <<>>, result |-> <<>>]

\* A call of get_relevant_files on a workspace without project markers
\* (project_info["language"] is None)
GetRelevantFiles ==
    /\ \E max_files \in MaxFilesChoices, pats \in PatternLists :
         relevant' = [called |-> TRUE, query |-> Q_config, max_files |-> max_files,
                      include_patterns |-> pats,
                      result |-> get_relevant_files(root_loc, scan_order, ages, "none",
                                                    Q_config, max_files, pats)]
    /\ UNCHANGED <<root_loc, ages, scan_order>>
    /\ UNCHANGED <<agentVars, regVars, fileVars, ctxVars, chatVars>>

\* A file of the workspace is modified, or time passes
Touch ==
    /\ \E f \in WorkspaceFiles, a \in AgeClasses : ages' = [ages EXCEPT ![f] = a]
    /\ relevant' = NoRelevant
    /\ UNCHANGED <<root_loc, scan_order>>
    /\ UNCHANGED <<agentVars, regVars, fileVars, ctxVars, chatVars>>

NextScore ==
    \/ GetRelevantFiles
    \/ Touch

\* ---------------------------------------------------------------------------
\* chat_mode: a turn of the chat loop and its TypingAnimation thread
\* ---------------------------------------------------------------------------
\* How the request of a turn ends: response.raise_for_status() passed, or
\* requests.exceptions.Timeout, another RequestException, another Exception,
\* or KeyboardInterrupt
Outcomes == {"reply", "timeout", "request_error", "error", "interrupt"}

\* The steps of the code that takes over after an outcome: typing.stop() is
\* "flag" (self.running = False) and "join" (self.thread.join(timeout=1.0) and
\* the write that clears the line), "print" is the print that follows.  The
\* handler of KeyboardInterrupt stops only if the local "typing" is bound.
HandlerSilentOnInterrupt(outcome, bound) ==
    IF outcome = "interrupt" THEN <<"print">> ELSE <<"flag", "join", "print">>

Handler(outcome, bound) ==
    IF outcome = "interrupt" /\ ~bound THEN <<"print">>
    ELSE <<"flag", "join", "print">>

NoTyping == [bound |-> FALSE, running |-> FALSE, thread |-> "none", dots |-> 0]
NoTurn == [started |-> FALSE, outcome |-> "none", stops |-> 0, prints |-> <<>>]

\* typing = TypingAnimation(); typing.start().  A thread of an earlier turn
\* that outlived its join is left to itself: its flag is already cleared.
TurnStart ==
    /\ chat_pc = "prompt"
    /\ typing' = [bound |-> TRUE, running |-> TRUE, thread |-> "test", dots |-> 0]
    /\ turn' = [NoTurn EXCEPT !.started = TRUE]
    /\ chat_pc' = "request"
    /\ UNCHANGED todo
    /\ UNCHANGED <<agentVars, regVars, fileVars, ctxVars, scoreVars>>

\* KeyboardInterrupt at the prompt, before any thread is started in this turn
PromptInterrupt ==
    /\ chat_pc = "prompt"
    /\ turn' = [NoTurn EXCEPT !.outcome = "interrupt"]
    /\ todo' = Handler("interrupt", typing.bound)
    /\ chat_pc' = "handler"
    /\ UNCHANGED typing
    /\ UNCHANGED <<agentVars, regVars, fileVars, ctxVars, scoreVars>>

\* requests.post(...) and response.raise_for_status()
Request ==
    /\ chat_pc = "request"
    /\ \E o \in Outcomes :
         /\ turn' = [turn EXCEPT !.outcome = o]
         /\ todo' = Handler(o, typing.bound)
    /\ chat_pc' = "handler"
    /\ UNCHANGED typing
    /\ UNCHANGED <<agentVars, regVars, fileVars, ctxVars, scoreVars>>

\* TypingAnimation.stop(): self.running = False
StopFlag ==
    /\ chat_pc = "handler"
    /\ todo # <<>> /\ Head(todo) = "flag"
    /\ typing' = [typing EXCEPT !.running = FALSE]
    /\ todo' = Tail(todo)
    /\ UNCHANGED <<chat_pc, turn>>
    /\ UNCHANGED <<agentVars, regVars, fileVars, ctxVars, scoreVars>>

\* TypingAnimation.stop(): self.thread.join(timeout=1.0) returns, the thread
\* having ended or the second having passed, and the line is cleared
StopJoin ==
    /\ chat_pc = "handler"
    /\ todo # <<>> /\ Head(todo) = "join"
    /\ turn' = [turn EXCEPT !.stops = @ + 1]
    /\ todo' = Tail(todo)
    /\ UNCHANGED <<chat_pc, typing>>
    /\ UNCHANGED <<agentVars, regVars, fileVars, ctxVars, scoreVars>>

\* KeyboardInterrupt while the main thread waits in join: from the handlers of
\* the inner try it reaches the handler of KeyboardInterrupt, from that one it
\* leaves chat_mode
JoinInterrupted ==
    /\ chat_pc = "handler"
    /\ todo # <<>> /\ Head(todo) = "join"
    /\ typing.thread \in {"test", "body"}
    /\ IF turn.outcome = "interrupt"
       THEN /\ chat_pc' = "raised"
            /\ todo' = <<>>
            /\ UNCHANGED turn
       ELSE /\ turn' = [turn EXCEPT !.outcome = "interrupt"]
            /\ todo' = Handler("interrupt", typing.bound)
            /\ UNCHANGED chat_pc
    /\ UNCHANGED typing
    /\ UNCHANGED <<agentVars, regVars, fileVars, ctxVars, scoreVars>>

\* The print that follows typing.stop(): the "DeonAi:" label, an error line,
\* or the farewell
PrintOutput ==
    /\ chat_pc = "handler"
    /\ todo # <<>> /\ Head(todo) = "print"
    /\ turn' = [turn EXCEPT !.prints =
                    Append(@, [stops |-> turn.stops, running |-> typing.running])]
    /\ todo' = Tail(todo)
    /\ UNCHANGED <<chat_pc, typing>>
    /\ UNCHANGED <<agentVars, regVars, fileVars, ctxVars, scoreVars>>

\* The streamed reply is being printed by the inner try, which can still fail
StreamFails ==
    /\ chat_pc = "handler"
    /\ todo = <<>> /\ turn.outcome = "reply"
    /\ \E o \in Outcomes \ {"reply", "timeout"} :
         /\ turn' = [turn EXCEPT !.outcome = o]
         /\ todo' = Handler(o, typing.bound)
    /\ UNCHANGED <<chat_pc, typing>>
    /\ UNCHANGED <<agentVars, regVars, fileVars, ctxVars, scoreVars>>

\* The turn is over: back to the prompt, or "break" after KeyboardInterrupt
EndTurn ==
    /\ chat_pc = "handler"
    /\ todo = <<>>
    /\ chat_pc' = IF turn.outcome = "interrupt" THEN "done" ELSE "prompt"
    /\ UNCHANGED <<todo, typing, turn>>
    /\ UNCHANGED <<agentVars, regVars, fileVars, ctxVars, scoreVars>>

\* TypingAnimation._animate, the indicator thread: test the flag; write the
\* dots, count and sleep
Animate ==
    /\ typing.thread \in {"test", "body"}
    /\ typing' =
         IF typing.thread = "body"
         THEN [typing EXCEPT !.thread = "test", !.dots = (@ + 1) % 4]
         ELSE IF typing.running THEN [typing EXCEPT !.thread = "body"]
         ELSE [typing EXCEPT !.thread = "dead"]
    /\ UNCHANGED <<chat_pc, todo, turn>>
    /\ UNCHANGED <<agentVars, regVars, fileVars, ctxVars, scoreVars>>

NextChat ==
    \/ TurnStart
    \/ PromptInterrupt
    \/ Request
    \/ StopFlag
    \/ StopJoin
    \/ JoinInterrupted
    \/ PrintOutput
    \/ StreamFails
    \/ EndTurn
    \/ Animate

\* ---------------------------------------------------------------------------
\* Specifications: one per component, the other components at rest
\* ---------------------------------------------------------------------------
\* The registry after the built-in tools have registered themselves
BuiltinTools == <<Entry("read_file", 1), Entry("write_file", 1)>>

AgentIdle ==
    /\ max_iterations = 0
    /\ current_iteration = 0
    /\ messages = <<>>
    /\ pc = "idle"
    /\ pending = <<>>
    /\ ret = EmptyText
    /\ initial = <<>>
    /\ api_log = <<>>
    /\ executed = <<>>
    /\ runs = 0
    /\ disk = "old"

RegistryIdle ==
    /\ tools = BuiltinTools
    /\ last_exec = NoExec

FilesIdle ==
    /\ file = NoFile
    /\ backup = NoFile
    /\ patch_installed = FALSE
    /\ dop = NoDop
    /\ gen = NoGen
    /\ rt = NoRt

CtxIdle ==
    /\ cwd = <<>>
    /\ markers = [d \in Dirs |-> {}]
    /\ git = GitOutcome("raises", <<>>)
    /\ workspace = NoWorkspace
    /\ ctx_pc = "new"
    /\ project_info = NoInfo
    /\ ctx_log = NoCtxLog
    /\ asked = NoAsked

ScoreIdle ==
    /\ root_loc = <<>>
    /\ ages = [f \in WorkspaceFiles |-> "old"]
    /\ scan_order = <<>>
    /\ relevant = NoRelevant

ChatIdle ==
    /\ chat_pc = "prompt"
    /\ todo = <<>>
    /\ typing = NoTyping
    /\ turn = NoTurn

\* AgenticExecutor.__init__(max_iterations), with the built-in registry
InitAgent ==
    /\ max_iterations \in 0..MaxIter
    /\ current_iteration = 0
    /\ messages = <<>>
    /\ pc = "idle"
    /\ pending = <<>>
    /\ ret = EmptyText
    /\ initial = <<>>
    /\ api_log = <<>>
    /\ executed = <<>>
    /\ runs = 0
    /\ disk = "old"
    /\ RegistryIdle /\ FilesIdle /\ CtxIdle /\ ScoreIdle /\ ChatIdle

NextAgent ==
    \/ StartLoop
    \/ WhileTest
    \/ ApiCallFails
    \/ ApiReplyPlain
    \/ ApiReplyToolCalls
    \/ ExecTool
    \/ EndBatch

SpecAgent == InitAgent /\ [][NextAgent]_vars

\* execute_loop is sequential code: once entered, each statement is followed by
\* the next as soon as the backend or the tool it waits for has answered.
LoopStep ==
    WhileTest \/ ApiCallFails \/ ApiReplyPlain \/ ApiReplyToolCalls \/ ExecTool \/ EndBatch

SpecAgentFair == SpecAgent /\ WF_vars(LoopStep)

\* ToolRegistry.__init__: an empty table
InitRegistry ==
    /\ tools = <<>>
    /\ last_exec = NoExec
    /\ AgentIdle /\ FilesIdle /\ CtxIdle /\ ScoreIdle /\ ChatIdle

NextRegistry ==
    \/ Register
    \/ Unregister
    \/ Execute

SpecRegistry == InitRegistry /\ [][NextRegistry]_vars

\* A file that exists with any content or does not exist, no backup yet
InitFiles ==
    /\ file \in {NoFile} \cup { FileOf(d) : d \in Contents }
    /\ backup = NoFile
    /\ patch_installed \in BOOLEAN
    /\ dop = NoDop
    /\ gen = NoGen
    /\ rt = NoRt
    /\ AgentIdle /\ RegistryIdle /\ CtxIdle /\ ScoreIdle /\ ChatIdle

SpecFiles == InitFiles /\ [][NextFiles]_vars

\* Any layout of markers, any behaviour of git, any current directory
InitCtx ==
    /\ cwd \in Dirs
    /\ markers \in Layouts
    /\ git \in GitOutcomes
    /\ workspace = NoWorkspace
    /\ ctx_pc = "new"
    /\ project_info = NoInfo
    /\ ctx_log = NoCtxLog
    /\ asked = NoAsked
    /\ AgentIdle /\ RegistryIdle /\ FilesIdle /\ ScoreIdle /\ ChatIdle

SpecCtx == InitCtx /\ [][NextCtx]_vars

\* The three files, anywhere, of any age, scanned in any order
InitScore ==
    /\ root_loc \in RootLocs
    /\ ages \in [WorkspaceFiles -> AgeClasses]
    /\ scan_order \in Permutations3(WorkspaceFiles)
    /\ relevant = NoRelevant
    /\ AgentIdle /\ RegistryIdle /\ FilesIdle /\ CtxIdle /\ ChatIdle

SpecScore == InitScore /\ [][NextScore]_vars

\* ---------------------------------------------------------------------------
\* Properties of the DiffEngine
\* ---------------------------------------------------------------------------
\* C3: after create_backup of an existing file with content v, any overwrites
\* of the file and then restore_backup, the restore returned true, the file
\* holds exactly v and no backup file is left.
C3_BackupRoundTrip ==
    rt.stage = "restored" =>
        /\ dop.exc = "none"
        /\ dop.ret = TRUE
        /\ file = FileOf(rt.v)
        /\ ~backup.exists

\* C5: with no patch utility installed, a call of apply_patch does not raise,
\* and it either reports success or leaves the file exactly as it was.
C5_ManualFallbackDeclines ==
    [][ (dop'.op = "apply_patch" /\ ~patch_installed) =>
            /\ dop'.exc = "none"
            /\ (dop'.ret \/ file' = file) ]_vars

\* C8: generate_diff(x, x, label) is the empty diff, and apply_patch with an
\* empty diff leaves the content of the file unchanged.
C8_EmptyDiffNoOp ==
    /\ [](gen.called /\ gen.original = gen.modified => gen.out = EmptyDiff)
    /\ [][ (dop'.op = "apply_patch" /\ dop'.patch_empty) => file' = file ]_vars

\* C16: when the patch utility exits non-zero, apply_patch does not raise,
\* returns (false, 'Patch failed: ' + the utility's diagnostic output), and
\* the file is exactly what it was before the call, whatever the utility
\* wrote to it.
C16_NonZeroExitRestores ==
    [][ (dop'.op = "apply_patch" /\ dop'.status = "nonzero") =>
            /\ dop'.exc = "none"
            /\ ~dop'.ret
            /\ dop'.msg = <<"Patch failed: ", "stderr">>
            /\ file' = file ]_vars

\* C17: whenever apply_patch returns (false, message), restore_backup was
\* called before the return, unless there was no backup file to restore from.
C17_FailureAlwaysRestores ==
    [][ (dop'.op = "apply_patch" /\ dop'.exc = "none" /\ ~dop'.ret) =>
            (dop'.restore \/ ~backup'.exists) ]_vars

\* C18: create_backup does not raise and does not change the file; for an
\* existing file the backup file holds exactly the file's content afterwards,
\* whatever it held before, and for a missing file the backup file is left as
\* it was.
C18_SingleBackupHoldsContent ==
    [][ dop'.op = "create_backup" =>
            /\ dop'.exc = "none"
            /\ file' = file
            /\ file.exists => backup' = FileOf(file.data)
            /\ ~file.exists => backup' = backup ]_vars

\* C19: restore_backup without a backup file returns false, does not raise,
\* and changes neither the file nor the backup path; a restore_backup that
\* directly follows a successful one returns false and leaves the file as
\* the first one restored it.
C19_RestoreWithoutBackup ==
    /\ [][ (dop'.op = "restore_backup" /\ ~backup.exists) =>
              /\ dop'.exc = "none"
              /\ ~dop'.ret
              /\ file' = file
              /\ backup' = backup ]_vars
    /\ [][ (dop.op = "restore_backup" /\ dop.ret /\ dop'.op = "restore_backup") =>
              /\ ~dop'.ret
              /\ file' = file ]_vars
    /\ [](rt.stage = "again" => (~dop.ret /\ ~backup.exists))

C19_Witness ==
    /\ rt.stage = "again"
    /\ dop.op = "restore_backup"
    /\ ~dop.ret
    /\ file.exists /\ file.data # <<>>
    /\ ~backup.exists

\* ---------------------------------------------------------------------------
\* Properties of the ContextManager
\* ---------------------------------------------------------------------------
GitHit == git.kind = "ok" /\ PathExists(git.toplevel)

\* C6: when git reports an existing top-level directory, detect_workspace
\* returns that directory, whatever markers cwd and its ancestors contain; it
\* returns the marker root only when git misses, and cwd only when both miss.
C6_GitRootFirst ==
    ctx_pc = "ready" =>
        /\ workspace.set
        /\ GitHit => (~ctx_log.detect_raised /\ ctx_log.detected = git.toplevel)
        /\ (~GitHit /\ ~ctx_log.detect_raised /\ find_marker_root(cwd, markers).found) =>
               ctx_log.detected = find_marker_root(cwd, markers).path
        /\ (~GitHit /\ ~ctx_log.detect_raised /\ ~find_marker_root(cwd, markers).found) =>
               ctx_log.detected = cwd
        /\ ctx_log.fault = "none" => workspace.path = ctx_log.detected

C6_Witness ==
    /\ ctx_pc = "ready"
    /\ GitHit
    /\ Len(cwd) = MaxDepth
    /\ git.toplevel = Parent(Parent(cwd))
    /\ "setup.py" \in markers[cwd]
    /\ markers[Parent(cwd)] # {}
    /\ ctx_log.detected = git.toplevel
    /\ workspace.path = git.toplevel

\* C20: __init__ never raises, whatever git does and whichever probe of the
\* file system fails; afterwards workspace and project_info are set, and when
\* detection or classification failed the workspace is cwd and the project
\* type is 'unknown'.
C20_ConstructionNeverRaises ==
    ctx_pc = "ready" =>
        /\ ctx_log.exc = "none"
        /\ workspace.set
        /\ project_info.set
        /\ (ctx_log.detect_raised \/ ctx_log.classify_raised) =>
               /\ workspace.path = cwd
               /\ project_info = UnknownInfo

C20_Witness ==
    /\ ctx_pc = "ready"
    /\ git.kind = "raises"
    /\ ctx_log.classify_raised
    /\ ctx_log.detected = Parent(cwd)
    /\ "setup.py" \in markers[Parent(cwd)]
    /\ cwd # Parent(cwd)
    /\ workspace.path = cwd
    /\ project_info.type = "unknown"

IndexOf(q, x) == IF \E i \in 1..Len(q) : q[i] = x
                 THEN CHOOSE i \in 1..Len(q) : q[i] = x ELSE 0

\* C7: for the query "config", wherever the workspace root lies and whatever
\* the modification times are, a call that may return two files or more
\* returns config.py before src/app_config.py and does not return README.md.
C7_ConfigRanking ==
    (relevant.called /\ relevant.max_files >= 2) =>
        LET r == relevant.result
            c == IndexOf(r, root_loc \o F_config)
            a == IndexOf(r, root_loc \o F_app_config)
        IN  /\ c > 0
            /\ a > c
            /\ IndexOf(r, root_loc \o F_readme) = 0

\* The candidates of the last call in traversal order, and their scores
Candidates ==
    filter_excluded(CollectFiles(root_loc, scan_order,
        IF relevant.include_patterns = <<>> THEN get_default_patterns("none")
        ELSE relevant.include_patterns))

ScoreOf(f) ==
    Score(f, root_loc, relevant.query, ages[SubSeq(f, Len(root_loc) + 1, Len(f))])

\* Rank of the k-th candidate among those with a positive score, sc being the
\* scores of the candidates: one more than the number of candidates that
\* score higher, or the same and come earlier
RankOf(sc, k) ==
    1 + Cardinality({ j \in 1..Len(sc) :
                        /\ sc[j] > 0
                        /\ (sc[j] > sc[k] \/ (sc[j] = sc[k] /\ j < k)) })

\* C21: the list returned by get_relevant_files holds only files with a
\* positive score, in the order of non-increasing score with files of equal
\* score in traversal order, and it consists of the max_files highest-ranked
\* candidates (all of them if there are fewer).
C21_TopRankedPositive ==
    relevant.called =>
        LET r == relevant.result
            cand == Candidates
            sc == [k \in 1..Len(cand) |-> ScoreOf(cand[k])]
            rs == [i \in 1..Len(r) |-> ScoreOf(r[i])]
            positive == { k \in 1..Len(cand) : sc[k] > 0 }
        IN  /\ Len(r) <= relevant.max_files
            /\ Len(r) = IF Cardinality(positive) < relevant.max_files
                        THEN Cardinality(positive) ELSE relevant.max_files
            /\ \A i \in 1..Len(r) : rs[i] > 0
            /\ \A i \in 1..Len(r) - 1 : rs[i] >= rs[i + 1]
            /\ \A k \in positive : RankOf(sc, k) <= Len(r) => r[RankOf(sc, k)] = cand[k]

C21_Witness ==
    /\ relevant.called
    /\ relevant.max_files = 2
    /\ Len(Candidates) >= 3
    /\ relevant.result = <<root_loc \o F_app_config, root_loc \o F_config>>
    /\ ScoreOf(root_loc \o F_app_config) = ScoreOf(root_loc \o F_config)

\* C22: is_in_workspace(p) is true exactly when the resolved p is the resolved
\* workspace root or lies beneath it; so it is true of the current directory
\* and of the root itself, false of a strict ancestor of the root, and false
\* of a path that begins with the root and leaves it through "..".
C22_InWorkspace ==
    (ctx_pc = "ready" /\ asked.called) =>
        LET p == resolve(asked.path)
            w == resolve(workspace.path)
        IN  /\ asked.result <=> IsPrefix(w, p)
            /\ asked.path = cwd => asked.result
            /\ asked.path = workspace.path => asked.result
            /\ (p # w /\ IsPrefix(p, w)) => ~asked.result
            /\ (IsPrefix(w, asked.path) /\ ~IsPrefix(w, p)) => ~asked.result

\* The chat loop at its first prompt, no indicator yet
InitChat ==
    /\ ChatIdle
    /\ AgentIdle /\ RegistryIdle /\ FilesIdle /\ CtxIdle /\ ScoreIdle

SpecChat == InitChat /\ [][NextChat]_vars

\* C23: in a turn that started the indicator thread, whatever the way the turn
\* ends (reply, timeout, request error, unexpected error, keyboard interrupt),
\* every print of the main thread comes after a completed stop of the
\* indicator: the running flag is cleared and the join has returned.
C23_StopBeforeOutput ==
    turn.started =>
        \A i \in 1..Len(turn.prints) :
            turn.prints[i].stops >= 1 /\ ~turn.prints[i].running

C23_Witness ==
    /\ turn.started
    /\ turn.outcome = "interrupt"
    /\ Len(turn.prints) = 2
    /\ chat_pc = "done"

\* C24: directly after apply_patch has returned (True, message), the backup
\* holds the content the file had before the patch, and a restore_backup that
\* follows returns True and puts exactly that content back.
C24_SuccessLeavesSnapshot ==
    [][ (dop'.op = "apply_patch" /\ dop'.exc = "none" /\ dop'.ret) =>
            LET r == restore_backup(FS(file', backup')) IN
            /\ file.exists
            /\ backup' = file
            /\ r.exc = "none" /\ r.ret
            /\ r.fs.file = file ]_vars

\* C25: when the git lookup misses, the workspace is the nearest directory
\* among cwd and all of its ancestors, the file system root included, that
\* holds a marker; it is cwd only if none of them holds one.
C25_NearestMarkedDirectory ==
    (ctx_pc = "ready" /\ ctx_log.fault = "none" /\ ~find_git_root(git).found) =>
        LET marked == { n \in 0..Len(cwd) : markers[SubSeq(cwd, 1, n)] # {} }
        IN  workspace.path =
                IF marked = {} THEN cwd
                ELSE SubSeq(cwd, 1, CHOOSE n \in marked : \A m \in marked : m <= n)

\* C26: when a batch is over and execute_loop is about to call the backend
\* again or to return, every request of the last assistant message with tool
\* calls has exactly one tool-role message with its id after that message.
C26_EveryRequestAnswered ==
    (pc = "while" /\ api_log # <<>>) =>
        LET reqs == messages[LastCallsIdx].tool_calls IN
        \A k \in 1..Len(reqs) : 
            Cardinality({ j \in (LastCallsIdx + 1)..Len(messages) :
                            /\ messages[j].role = "tool"
                            /\ messages[j].tool_call_id = reqs[k].id }) = 1

\* C27: apply_patch never raises; also when the backup cannot be created, it
\* returns a pair (False, message).
C27_ApplyPatchNeverRaises ==
    dop.op = "apply_patch" => dop.exc = "none"

\* C29: after create_backup of an existing file with content v and then calls
\* of apply_patch (at least one, successful or not), restore_backup returns
\* True and the file holds exactly v.
C29_ExplicitBackupSurvivesPatches ==
    rt.stage = "unpatched" =>
        /\ dop.exc = "none"
        /\ dop.ret = TRUE
        /\ file = FileOf(rt.v)

\* C28: when execute_loop returns the sentinel, the backend has been called
\* max_iterations times, every call was answered with tool-call requests, and
\* the requests of every reply, those of the last one included, have been
\* executed and have their tool-role messages in the conversation.
C28_FinalBatchExecuted ==
    (pc = "returned" /\ ret = Sentinel) =>
        /\ Len(api_log) = max_iterations
        /\ \A b \in 1..Len(api_log) :
             /\ api_log[b].kind = "reply"
             /\ api_log[b].tool_calls # <<>>
             /\ \A k \in 1..Len(api_log[b].tool_calls) : 
                  \E i \in 1..Len(executed) :
                     /\ executed[i].batch = b
                     /\ executed[i].id = api_log[b].tool_calls[k].id
                     /\ executed[i].at <= Len(messages)
                     /\ messages[executed[i].at].role = "tool"
                     /\ messages[executed[i].at].tool_call_id = executed[i].id

\* C30: the counter stays between 0 and max_iterations; every execute_loop
\* call starts by setting it to 0, so the backend is called at most
\* max_iterations times in a run whatever the runs before it did; and with
\* max_iterations = 0 the backend is never called and the run returns the
\* sentinel with the conversation as it was passed.
C30_CounterBounded ==
    /\ [](/\ 0 <= current_iteration /\ current_iteration <= max_iterations
          /\ Len(api_log) <= max_iterations
          /\ Running => Len(api_log) <= current_iteration
          /\ max_iterations = 0 =>
                /\ api_log = <<>>
                /\ pc = "returned" => (ret = Sentinel /\ messages = initial))
    /\ [][runs' = runs + 1 => (current_iteration' = 0 /\ api_log' = <<>>)]_vars
    /\ [][(runs' = runs /\ max_iterations >= 1 /\ pc = "while" /\ api_log = <<>>)
              => pc' = "api"]_vars

C30_Witness ==
    /\ runs = 2
    /\ pc = "returned"
    /\ max_iterations = MaxIter
    /\ Len(api_log) = max_iterations
    /\ current_iteration = max_iterations
    /\ ret = Sentinel

====
